---- MODULE Spec2Model ----
(***************************************************************************)
(* Model of evennia/contrib/convert_gametime.py: the game-time unit table, *)
(* the conversion helpers (time_to_tuple, gametime_to_realtime,            *)
(* real_seconds_until) and the GametimeScript scheduling protocol          *)
(* (schedule, at_start, at_repeat, at_server_reload, at_server_shutdown).  *)
(*                                                                         *)
(* Unit names are sequences of one-character strings, so that the plural   *)
(* stripping of gametime_to_realtime (name[:-1]) is computed, not assumed. *)
(* A real number produced by a division by TIMEFACTOR is kept as the exact *)
(* fraction [num, den].                                                    *)
(***************************************************************************)
EXTENDS Integers, Sequences, FiniteSets, TLC

(***************************************************************************)
(* Configuration (module level of the source).                             *)
(***************************************************************************)
TIMEFACTOR == 2

SEC == 1
MIN == 60
HOUR == 60 * MIN
DAY == 24 * HOUR
WEEK == 7 * DAY
MONTH == 4 * WEEK
YEAR == 12 * MONTH

n_sec == <<"s", "e", "c">>
n_min == <<"m", "i", "n">>
n_hr == <<"h", "r">>
n_hour == <<"h", "o", "u", "r">>
n_day == <<"d", "a", "y">>
n_week == <<"w", "e", "e", "k">>
n_month == <<"m", "o", "n", "t", "h">>
n_year == <<"y", "e", "a", "r">>
n_yr == <<"y", "r">>
\* names that are not keys of UNITS
n_mins == <<"m", "i", "n", "s">>
n_hours == <<"h", "o", "u", "r", "s">>
n_fortnight == <<"f", "o", "r", "t", "n", "i", "g", "h", "t">>
n_fortnights == <<"f", "o", "r", "t", "n", "i", "g", "h", "t", "s">>

UNITS ==
    (n_sec :> SEC) @@ (n_min :> MIN) @@ (n_hr :> HOUR) @@ (n_hour :> HOUR) @@
    (n_day :> DAY) @@ (n_week :> WEEK) @@ (n_month :> MONTH) @@
    (n_year :> YEAR) @@ (n_yr :> YEAR)

(***************************************************************************)
(* Python helpers used by the source.                                      *)
(***************************************************************************)
Range(f) == {f[x] : x \in DOMAIN f}

SetMax(S) == CHOOSE x \in S : \A y \in S : y <= x

\* sorted(set(...), reverse=True)
RECURSIVE sorted_reverse(_)
sorted_reverse(S) ==
    IF S = {} THEN <<>>
    ELSE <<SetMax(S)>> \o sorted_reverse(S \ {SetMax(S)})

\* list.index(x): 0-based position of the first occurrence
list_index(seq, x) == (CHOOSE i \in 1..Len(seq) :
                          seq[i] = x /\ \A j \in 1..(i - 1) : seq[j] # x) - 1

\* sum(value * units[i] for i, value in enumerate(divisors))
RECURSIVE weighted_sum(_, _)
weighted_sum(values, weights) ==
    IF values = <<>> THEN 0
    ELSE Head(values) * Head(weights) + weighted_sum(Tail(values), Tail(weights))

\* int(x) of the fraction num/den, den > 0: truncation toward zero
int_of(num, den) == IF num >= 0 THEN num \div den ELSE -((-num) \div den)

(***************************************************************************)
(* time_to_tuple(seconds, *divisors)                                       *)
(***************************************************************************)
RECURSIVE time_to_tuple_loop(_, _, _)
time_to_tuple_loop(seconds, divisors, results) ==
    IF divisors = <<>> THEN Append(results, seconds)
    ELSE time_to_tuple_loop(seconds % Head(divisors), Tail(divisors),
                            Append(results, seconds \div Head(divisors)))

\* mutation: the remainder is not carried forward
time_to_tuple_noremainder(seconds, divisors) ==
    [i \in 1..(Len(divisors) + 1) |->
        IF i <= Len(divisors) THEN seconds \div divisors[i] ELSE seconds]

time_to_tuple(seconds, divisors) ==
    time_to_tuple_loop(seconds, divisors, <<>>)

(***************************************************************************)
(* gametime_to_realtime(format=False, **kwargs)                            *)
(***************************************************************************)
\* the name looked up for a keyword: plural names lose their final "s"
unit_name(name) ==
    IF name \notin DOMAIN UNITS /\ Len(name) > 0 /\ name[Len(name)] = "s"
    THEN SubSeq(name, 1, Len(name) - 1)
    ELSE name

\* the keyword names of a call
kwargs_keys(kwargs) == {kwargs[i][1] : i \in 1..Len(kwargs)}

\* rtime after "for name, value in kwargs.items()"
RECURSIVE rtime_sum(_)
rtime_sum(kwargs) ==
    IF kwargs = <<>> THEN 0
    ELSE Head(kwargs)[2] * UNITS[unit_name(Head(kwargs)[1])] + rtime_sum(Tail(kwargs))

gametime_to_realtime(format, kwargs) ==
    IF \E name \in kwargs_keys(kwargs) : unit_name(name) \notin DOMAIN UNITS
    THEN [error |-> "ValueError", num |-> 0, den |-> 1, tuple |-> <<>>]
    ELSE LET rtime == rtime_sum(kwargs)
         IN  [error |-> "none", num |-> rtime, den |-> TIMEFACTOR,
              tuple |-> IF format
                        THEN time_to_tuple(int_of(rtime, TIMEFACTOR),
                                 <<31536000, 2628000, 604800, 86400, 3600, 60>>)
                        ELSE <<>>]

(***************************************************************************)
(* real_seconds_until, with the game clock read passed in as              *)
(* current = gametime(absolute=True).  kwargs is the sequence of the       *)
(* call's <<name, value>> keywords in call order, each name once.          *)
(***************************************************************************)
\* units after "del units[-1]" and "units.append(1)"
rsu_units ==
    LET sorted == sorted_reverse(Range(UNITS))
    IN  Append(SubSeq(sorted, 1, Len(sorted) - 1), 1)

\* divisors before the keywords are applied
rsu_current_divisors(current) ==
    time_to_tuple(current, SubSeq(rsu_units, 1, Len(rsu_units) - 1))

\* 0-based index of a keyword's unit in units
rsu_index(unit) == list_index(rsu_units, UNITS[unit])

\* "divisors[index] = value" for each keyword in turn
RECURSIVE rsu_loop(_, _)
rsu_loop(divisors, kwargs) ==
    IF kwargs = <<>> THEN divisors
    ELSE rsu_loop([divisors EXCEPT ![rsu_index(Head(kwargs)[1]) + 1] = Head(kwargs)[2]],
                  Tail(kwargs))

\* divisors after the keyword loop
rsu_divisors(current, kwargs) ==
    rsu_loop(rsu_current_divisors(current), kwargs)

\* higher_unit after the keyword loop; None is -1
rsu_higher_unit(kwargs) ==
    IF kwargs = <<>> THEN -1
    ELSE CHOOSE h \in {rsu_index(unit) : unit \in kwargs_keys(kwargs)} :
            \A unit \in kwargs_keys(kwargs) : h <= rsu_index(unit)

\* the first projection
rsu_projected(current, kwargs) ==
    weighted_sum(rsu_divisors(current, kwargs), rsu_units)

\* mutation: the higher unit itself is increased
rsu_rolled_same_unit(current, kwargs) ==
    LET divisors == rsu_divisors(current, kwargs)
        h == rsu_higher_unit(kwargs)
    IN  IF rsu_projected(current, kwargs) <= current
        THEN IF h > 0
             THEN [divisors EXCEPT ![h + 1] = @ + 1]
             ELSE [divisors EXCEPT ![1] = @ + 1]
        ELSE divisors

\* mutation: a projection equal to the current time is not rolled over
rsu_rolled_strict(current, kwargs) ==
    LET divisors == rsu_divisors(current, kwargs)
        h == rsu_higher_unit(kwargs)
    IN  IF rsu_projected(current, kwargs) < current
        THEN IF h > 0
             THEN [divisors EXCEPT ![h] = @ + 1]
             ELSE [divisors EXCEPT ![1] = @ + 1]
        ELSE divisors

\* divisors after "if projected <= current"
rsu_rolled(current, kwargs) ==
    LET divisors == rsu_divisors(current, kwargs)
        h == rsu_higher_unit(kwargs)
    IN  IF rsu_projected(current, kwargs) <= current
        THEN IF h > 0
             THEN [divisors EXCEPT ![h] = @ + 1]
             ELSE [divisors EXCEPT ![1] = @ + 1]
        ELSE divisors

\* the second projection
rsu_projected_again(current, kwargs) ==
    weighted_sum(rsu_rolled(current, kwargs), rsu_units)

\* mutation: the speed factor multiplies instead of dividing
real_seconds_until_times(current, kwargs) ==
    IF \E unit \in kwargs_keys(kwargs) : unit \notin DOMAIN UNITS
    THEN [error |-> "ValueError", num |-> 0, den |-> 1]
    ELSE [error |-> "none",
          num |-> (rsu_projected_again(current, kwargs) - current) * TIMEFACTOR,
          den |-> 1]

real_seconds_until(current, kwargs) ==
    IF \E unit \in kwargs_keys(kwargs) : unit \notin DOMAIN UNITS
    THEN [error |-> "ValueError", num |-> 0, den |-> 1]
    ELSE [error |-> "none",
          num |-> rsu_projected_again(current, kwargs) - current,
          den |-> TIMEFACTOR]

(***************************************************************************)
(* State.                                                                  *)
(*   conv     a call of time_to_tuple or real_seconds_until and its result *)
(*   clock    the external game clock, gametime(absolute=True)             *)
(*   scripts  the GametimeScript objects, by id                            *)
(*   nextid   the id the next created script gets                          *)
(*   phase    the server: "up", "suspending" (the reload or shutdown hooks *)
(*            have run, the process still runs), "down"                    *)
(*   epoch    how many times the server has come back up                   *)
(*   ticks    how many times the clock has advanced                        *)
(*   last     the last scheduling operation and its outcome                *)
(*   log      per id: how it was scheduled, how often its timer fired      *)
(*            (and whether between a suspend notice and the stop) and how  *)
(*            often its callback was called                                *)
(***************************************************************************)
VARIABLES conv, clock, scripts, nextid, phase, epoch, ticks, last, log

vars == <<conv, clock, scripts, nextid, phase, epoch, ticks, last, log>>
sched_vars == <<clock, scripts, nextid, phase, epoch, ticks, last, log>>

(***************************************************************************)
(* Bounds of the model.                                                    *)
(***************************************************************************)
MaxSeconds == 24
MaxDivisor == 5
MaxDivisors == 2
MaxYear == 2
MaxScripts == 1
MaxTicks == 2
MaxResumes == 1
MaxFires == 2

Ids == 1..MaxScripts

(***************************************************************************)
(* Inputs.                                                                 *)
(***************************************************************************)
NoKwargs == <<>>

DivisorSeqs == UNION {[1..n -> 1..MaxDivisor] : n \in 0..MaxDivisors}

CurrentTimes ==
    {y * YEAR + mo * MONTH + w * WEEK + d * DAY + h * HOUR + m * MIN + s :
        y \in 0..MaxYear, mo \in {0, 11}, w \in {0, 3}, d \in {0, 6},
        h \in {0, 1, 2, 5, 23}, m \in {0, 10, 30, 59}, s \in {0, 17}}

\* the keywords of the real_seconds_until calls; the last three name one
\* unit by two of its names
Partials ==
    { NoKwargs,
      << <<n_sec, 0>> >>, << <<n_sec, 17>> >>, << <<n_min, 0>> >>,
      << <<n_min, 10>> >>, << <<n_min, 59>> >>, << <<n_min, 75>> >>,
      << <<n_hour, 2>> >>, << <<n_hr, 5>> >>, << <<n_day, 6>> >>,
      << <<n_week, 3>> >>, << <<n_month, 11>> >>, << <<n_year, 0>> >>,
      << <<n_year, 1>> >>, << <<n_yr, 3>> >>,
      << <<n_hour, 2>>, <<n_min, 30>> >>, << <<n_min, 0>>, <<n_hr, 5>> >>,
      << <<n_day, 6>>, <<n_sec, 0>> >>, << <<n_min, 10>>, <<n_year, 1>> >>,
      << <<n_mins, 5>> >>, << <<n_fortnight, 3>> >>,
      << <<n_min, 10>>, <<n_fortnight, 3>> >>,
      << <<n_hr, 5>>, <<n_hour, 2>> >>, << <<n_hour, 2>>, <<n_hr, 5>> >>,
      << <<n_yr, 1>>, <<n_year, 2>> >> }

RealtimeCalls ==
    { <<FALSE, << <<n_mins, 5>> >> >>,
      <<TRUE, << <<n_hours, 2>>, <<n_min, 30>> >> >>,
      <<TRUE, << <<n_sec, -3>> >> >>,
      <<FALSE, << <<n_fortnights, 3>> >> >> }

\* schedule(callback, repeat, **kwargs): callback given or None, repeat, kwargs
ScheduleCalls ==
    { <<TRUE, FALSE, << <<n_min, 10>> >> >>, <<TRUE, TRUE, << <<n_min, 10>> >> >>,
      <<FALSE, TRUE, << <<n_hour, 2>>, <<n_min, 30>> >> >>,
      <<TRUE, TRUE, << <<n_mins, 5>> >> >> }

ClockSteps == {10 * MIN, 22 * HOUR + 25 * MIN}

InitialClock == 5 * HOUR

(***************************************************************************)
(* Conversion calls.                                                       *)
(***************************************************************************)
NoConv ==
    [op |-> "none", done |-> FALSE, seconds |-> 0, divisors |-> <<>>,
     kwargs |-> NoKwargs, format |-> FALSE, error |-> "none", num |-> 0, den |-> 1, tuple |-> <<>>]

\* The calls of the pure functions a run of SpecConv starts from: the inputs
\* are drawn here, the call is made by the action.
PendingCalls ==
    {[NoConv EXCEPT !.op = "time_to_tuple", !.seconds = seconds,
                    !.divisors = divisors] :
        seconds \in 0..MaxSeconds, divisors \in DivisorSeqs}
    \cup
    {[NoConv EXCEPT !.op = "real_seconds_until", !.seconds = current,
                    !.kwargs = kwargs] :
        current \in CurrentTimes, kwargs \in Partials}

CallTimeToTuple ==
    /\ conv.op = "time_to_tuple"
    /\ ~conv.done
    /\ conv' = [conv EXCEPT !.done = TRUE,
                            !.tuple = time_to_tuple(conv.seconds, conv.divisors)]
    /\ UNCHANGED sched_vars

CallRealSecondsUntil ==
    /\ conv.op = "real_seconds_until"
    /\ ~conv.done
    /\ LET r == real_seconds_until(conv.seconds, conv.kwargs)
       IN  conv' = [conv EXCEPT !.done = TRUE, !.error = r.error,
                                !.num = r.num, !.den = r.den]
    /\ UNCHANGED sched_vars

(***************************************************************************)
(* GametimeScript objects.  interval is the script's stored interval;      *)
(* armed and timer are the host's timer for the script (armed with the     *)
(* interval the script had when it was started, due being the game time at *)
(* which that many real seconds have passed).                              *)
(***************************************************************************)
NoScript ==
    [alive |-> FALSE, key |-> "", interval |-> [num |-> 0, den |-> 1],
     start_delay |-> FALSE, persistent |-> FALSE, repeats |-> 0,
     callback |-> FALSE, gametime |-> NoKwargs, need_reset |-> FALSE,
     armed |-> FALSE, timer |-> [num |-> 0, den |-> 1], due |-> 0]

NoLog == [scheduled |-> FALSE, repeat |-> FALSE, kwargs |-> NoKwargs,
          calls |-> 0, fires |-> 0, fired_suspending |-> FALSE]

NoOp == [op |-> "none", id |-> 0, error |-> "none", kwargs |-> NoKwargs,
         now |-> 0, called |-> FALSE, format |-> FALSE,
         num |-> 0, den |-> 1, tuple |-> <<>>]

seconds_of(r) == [num |-> r.num, den |-> r.den]

RECURSIVE at_start(_, _)
RECURSIVE start(_, _)
RECURSIVE restart(_, _, _)

\* DefaultScript.start: the start hook, then the timer is armed with the interval
start(s, now) ==
    LET s1 == at_start(s, now)
    IN  [s1 EXCEPT !.armed = TRUE, !.timer = s1.interval,
                   !.due = now + (s1.interval.num * TIMEFACTOR) \div s1.interval.den]

\* DefaultScript.restart(interval=...): the timer is stopped, the interval
\* replaced, the script started again
restart(s, interval, now) ==
    start([s EXCEPT !.armed = FALSE, !.interval = interval], now)

\* GametimeScript.at_script_creation
at_script_creation(s) ==
    [s EXCEPT !.key = "unknown scr", !.interval = [num |-> 100, den |-> 1],
              !.start_delay = TRUE, !.persistent = TRUE]

\* GametimeScript.at_start
at_start(s, now) ==
    IF s.need_reset
    THEN restart([s EXCEPT !.need_reset = FALSE],
                 seconds_of(real_seconds_until(now, s.gametime)), now)
    ELSE s

\* GametimeScript.at_repeat; raises: whether callback() raises this time
at_repeat(s, now, raises) ==
    IF s.callback /\ raises
    THEN [error |-> "CallbackError", script |-> s, calls |-> 1]
    ELSE [error |-> "none",
          script |-> restart(s, seconds_of(real_seconds_until(now, s.gametime)), now),
          calls |-> IF s.callback THEN 1 ELSE 0]

\* GametimeScript.at_server_reload
at_server_reload(s) == [s EXCEPT !.need_reset = TRUE]

\* GametimeScript.at_server_shutdown
at_server_shutdown(s) == [s EXCEPT !.need_reset = TRUE]

\* create_script(typeclass, key=, interval=, start_delay=, repeats=): the
\* creation hook, the keyword overrides, then the script is started
create_script(interval, repeats, now) ==
    start([at_script_creation(NoScript) EXCEPT
              !.alive = TRUE, !.key = "GametimeScript", !.interval = interval,
              !.start_delay = TRUE, !.repeats = repeats],
          now)

\* mutation: the script is created before the time is resolved
schedule_creates_first(callback, repeat, kwargs, now) ==
    LET seconds == real_seconds_until(now, kwargs)
    IN  [error |-> seconds.error,
         script |-> [create_script(seconds_of(seconds),
                                   IF repeat THEN -1 ELSE 1, now)
                       EXCEPT !.callback = callback, !.gametime = kwargs]]

\* schedule(callback, repeat=False, **kwargs)
schedule(callback, repeat, kwargs, now) ==
    LET seconds == real_seconds_until(now, kwargs)
    IN  IF seconds.error # "none"
        THEN [error |-> seconds.error, script |-> NoScript]
        ELSE [error |-> "none",
              script |-> [create_script(seconds_of(seconds),
                                        IF repeat THEN -1 ELSE 1, now)
                            EXCEPT !.callback = callback, !.gametime = kwargs]]

\* The armed timer fires: the host's one-shot timer is consumed and the
\* script's fire handler at_repeat runs (an error of the callback goes to
\* the host).  What the script is afterwards is what at_repeat left.
timer_fire(s, now, raises) ==
    LET r == at_repeat([s EXCEPT !.armed = FALSE], now, raises)
    IN  [error |-> r.error, calls |-> r.calls, script |-> r.script]

(***************************************************************************)
(* Scheduling operations.                                                  *)
(***************************************************************************)
Schedule ==
    /\ phase = "up"
    /\ \E call \in ScheduleCalls :
          LET callback == call[1]
              repeat == call[2]
              kwargs == call[3]
              r == schedule(callback, repeat, kwargs, clock)
          IN  /\ r.script.alive => nextid <= MaxScripts
              /\ scripts' = IF r.script.alive
                            THEN [scripts EXCEPT ![nextid] = r.script]
                            ELSE scripts
              /\ nextid' = IF r.script.alive THEN nextid + 1 ELSE nextid
              /\ log' = IF r.script.alive
                        THEN [log EXCEPT ![nextid] =
                                 [scheduled |-> TRUE, repeat |-> repeat,
                                  kwargs |-> kwargs, calls |-> 0, fires |-> 0,
                                  fired_suspending |-> FALSE]]
                        ELSE log
              /\ last' = [NoOp EXCEPT !.op = "schedule", !.error = r.error,
                                      !.id = IF r.script.alive THEN nextid ELSE 0,
                                      !.kwargs = kwargs, !.now = clock]
    /\ UNCHANGED <<conv, clock, phase, epoch, ticks>>

Fire ==
    /\ phase \in {"up", "suspending"}
    /\ \E id \in Ids, raises \in BOOLEAN :
          /\ scripts[id].alive
          /\ scripts[id].armed
          /\ clock >= scripts[id].due
          /\ log[id].fires < MaxFires
          /\ LET r == timer_fire(scripts[id], clock, raises)
             IN  /\ scripts' = [scripts EXCEPT ![id] = r.script]
                 /\ log' = [log EXCEPT
                              ![id].calls = @ + r.calls,
                              ![id].fires = @ + 1,
                              ![id].fired_suspending =
                                  @ \/ phase = "suspending"]
                 /\ last' = [NoOp EXCEPT !.op = "fire", !.id = id,
                                         !.error = r.error, !.now = clock,
                                         !.called = r.calls > 0]
    /\ UNCHANGED <<conv, clock, nextid, phase, epoch, ticks>>

SuspendNotice ==
    /\ phase = "up"
    /\ epoch < MaxResumes
    /\ \E kind \in {"reload", "shutdown"} :
          /\ scripts' = [id \in Ids |->
                IF ~scripts[id].alive THEN scripts[id]
                ELSE IF kind = "reload" THEN at_server_reload(scripts[id])
                ELSE at_server_shutdown(scripts[id])]
          /\ last' = [NoOp EXCEPT !.op = kind, !.now = clock]
    /\ phase' = "suspending"
    /\ UNCHANGED <<conv, clock, nextid, epoch, ticks, log>>

Down ==
    /\ phase = "suspending"
    /\ phase' = "down"
    /\ scripts' = [id \in Ids |-> [scripts[id] EXCEPT !.armed = FALSE]]
    /\ last' = [NoOp EXCEPT !.op = "down", !.now = clock]
    /\ UNCHANGED <<conv, clock, nextid, epoch, ticks, log>>

Resume ==
    /\ phase = "down"
    /\ phase' = "up"
    /\ epoch' = epoch + 1
    /\ scripts' = [id \in Ids |->
          IF scripts[id].alive THEN start(scripts[id], clock)
          ELSE scripts[id]]
    /\ last' = [NoOp EXCEPT !.op = "resume", !.now = clock]
    /\ UNCHANGED <<conv, clock, nextid, ticks, log>>

CallGametimeToRealtime ==
    /\ phase # "down"
    /\ \E call \in RealtimeCalls :
          LET format == call[1]
              kwargs == call[2]
              r == gametime_to_realtime(format, kwargs)
          IN  last' = [NoOp EXCEPT !.op = "gametime_to_realtime",
                                   !.kwargs = kwargs, !.format = format,
                                   !.error = r.error, !.num = r.num,
                                   !.den = r.den, !.tuple = r.tuple]
    /\ UNCHANGED <<conv, clock, scripts, nextid, phase, epoch, ticks, log>>

Tick ==
    /\ ticks < MaxTicks
    /\ \E step \in ClockSteps : clock' = clock + step
    /\ ticks' = ticks + 1
    /\ last' = [NoOp EXCEPT !.op = "tick", !.now = clock]
    /\ UNCHANGED <<conv, scripts, nextid, phase, epoch, log>>

(***************************************************************************)
(* Specifications.                                                         *)
(***************************************************************************)
Init ==
    /\ conv = NoConv
    /\ clock = InitialClock
    /\ scripts = [id \in Ids |-> NoScript]
    /\ nextid = 1
    /\ phase = "up"
    /\ epoch = 0
    /\ ticks = 0
    /\ last = NoOp
    /\ log = [id \in Ids |-> NoLog]

Next ==
    \/ Schedule
    \/ Fire
    \/ SuspendNotice
    \/ Down
    \/ Resume
    \/ Tick
    \/ CallGametimeToRealtime

Spec == Init /\ [][Next]_vars

NextConv ==
    \/ CallTimeToTuple
    \/ CallRealSecondsUntil

InitConv ==
    /\ conv \in PendingCalls
    /\ clock = InitialClock
    /\ scripts = [id \in Ids |-> NoScript]
    /\ nextid = 1
    /\ phase = "up"
    /\ epoch = 0
    /\ ticks = 0
    /\ last = NoOp
    /\ log = [id \in Ids |-> NoLog]

SpecConv == InitConv /\ [][NextConv]_vars

(***************************************************************************)
(* Vocabulary of the properties of real_seconds_until.  These definitions  *)
(* state what a game time and a partial specification mean; they do not    *)
(* use the function's own intermediate values.                             *)
(***************************************************************************)
Resolved == conv.op = "real_seconds_until" /\ conv.done /\ conv.error = "none"

\* the game time the returned delay leads to
ProjectedTime == conv.seconds + conv.num

\* the size of the unit immediately above a unit of the table (0: there is none)
UnitAbove(size) ==
    LET larger == {x \in Range(UNITS) : x > size}
    IN  IF larger = {} THEN 0
        ELSE CHOOSE x \in larger : \A y \in larger : x <= y

\* the value a game time has for a unit
ValueOf(time, size) ==
    IF UnitAbove(size) = 0 THEN time \div size
    ELSE (time % UnitAbove(size)) \div size

\* the sizes of the units a partial names
NamedUnits(kwargs) == {UNITS[kwargs[i][1]] : i \in 1..Len(kwargs)}

\* the value a partial asks of a unit it names: the one given last for it
ValueAsked(kwargs, size) ==
    LET given == {i \in 1..Len(kwargs) : UNITS[kwargs[i][1]] = size}
    IN  kwargs[SetMax(given)][2]

RECURSIVE OverwriteSum(_, _, _)
OverwriteSum(time, kwargs, sizes) ==
    IF sizes = {} THEN 0
    ELSE LET size == CHOOSE x \in sizes : TRUE
         IN  (ValueAsked(kwargs, size) - ValueOf(time, size)) * size
             + OverwriteSum(time, kwargs, sizes \ {size})

\* the current game time with the named units overwritten by the caller's values
NaiveProjection(time, kwargs) == time + OverwriteSum(time, kwargs, NamedUnits(kwargs))

\* the size of the highest named unit
HighestNamed(kwargs) == SetMax(NamedUnits(kwargs))

\* every value lies inside its unit's range (the largest unit has no upper end)
InRange(kwargs) ==
    \A i \in 1..Len(kwargs) :
        LET size == UNITS[kwargs[i][1]]
        IN  /\ kwargs[i][2] >= 0
            /\ UnitAbove(size) # 0 => kwargs[i][2] < UnitAbove(size) \div size

SingleUnit(kwargs) == Cardinality(NamedUnits(kwargs)) = 1

TheUnit(kwargs) == CHOOSE size \in NamedUnits(kwargs) : TRUE

TheValue(kwargs) == ValueAsked(kwargs, TheUnit(kwargs))

(***************************************************************************)
(* C8.  time_to_tuple round-trips: for every non-negative integer s and    *)
(* every sequence of positive divisors d1..dn, chain of multiples or not,  *)
(* the result has length n+1 and the sum of result[i]*d_i, the last        *)
(* element weighted by 1, equals s.                                        *)
(***************************************************************************)
C8_RoundTrip ==
    (conv.op = "time_to_tuple" /\ conv.done) =>
        /\ Len(conv.tuple) = Len(conv.divisors) + 1
        /\ weighted_sum(conv.tuple, Append(conv.divisors, 1)) = conv.seconds

\* 11 seconds through the divisors 4, 3 (3 does not divide 4)
C8_Witness ==
    /\ conv.op = "time_to_tuple" /\ conv.done
    /\ conv.seconds = 11 /\ conv.divisors = <<4, 3>>
    /\ conv.tuple = <<2, 1, 0>>

(***************************************************************************)
(* C5.  When the named target lies ahead of the current game time there is *)
(* no rollover and the delay is (projected - current) / TIMEFACTOR; with   *)
(* TIMEFACTOR 2 and the default units, real_seconds_until at game time     *)
(* 3600 with min=10 projects 4200 and returns 300 real seconds.            *)
(***************************************************************************)
C5_NoRollover ==
    Resolved =>
        /\ NaiveProjection(conv.seconds, conv.kwargs) > conv.seconds =>
              /\ ProjectedTime = NaiveProjection(conv.seconds, conv.kwargs)
              /\ conv.den = TIMEFACTOR
        /\ (conv.seconds = 3600 /\ conv.kwargs = << <<n_min, 10>> >>) =>
              /\ ProjectedTime = 4200
              /\ conv.num = 300 * conv.den

C5_Witness ==
    /\ Resolved
    /\ conv.seconds = 3600 /\ conv.kwargs = << <<n_min, 10>> >>
    /\ conv.num = 600 /\ conv.den = 2

(***************************************************************************)
(* C3 as amended.  Whenever the naive projection is <= the current game    *)
(* time, real_seconds_until rolls it forward by exactly one of the unit    *)
(* immediately above the highest named unit, or, when the highest named    *)
(* unit is the largest unit of the table or no unit is named, by exactly   *)
(* one of the largest unit; at hour=5, min=0 the partial hour=2, min=30    *)
(* resolves to hour=2, min=30 of the next day, and the delay is that time  *)
(* minus the current time, divided by TIMEFACTOR.                          *)
(***************************************************************************)
C3_Rollover ==
    Resolved =>
        /\ NaiveProjection(conv.seconds, conv.kwargs) <= conv.seconds =>
              LET above == IF conv.kwargs = <<>> THEN 0
                           ELSE UnitAbove(HighestNamed(conv.kwargs))
                  step == IF above # 0 THEN above ELSE SetMax(Range(UNITS))
              IN  /\ ProjectedTime = NaiveProjection(conv.seconds, conv.kwargs) + step
                  /\ conv.den = TIMEFACTOR
        /\ (conv.seconds = 5 * HOUR /\ conv.kwargs = << <<n_hour, 2>>, <<n_min, 30>> >>) =>
              ProjectedTime = DAY + 2 * HOUR + 30 * MIN

\* 05:00 of day 0 with hour=2, min=30: 21.5 game hours ahead
C3_Witness ==
    /\ Resolved
    /\ conv.seconds = 5 * HOUR
    /\ conv.kwargs = << <<n_hour, 2>>, <<n_min, 30>> >>
    /\ conv.num = 21 * HOUR + 30 * MIN
    /\ conv.den = TIMEFACTOR

(***************************************************************************)
(* C3 as claimed.  Whenever the naive projection is <= the current game    *)
(* time, it is rolled forward by exactly one of the unit immediately above *)
(* the highest named unit.                                                 *)
(***************************************************************************)
C3_Original ==
    (Resolved /\ conv.kwargs # <<>>
       /\ NaiveProjection(conv.seconds, conv.kwargs) <= conv.seconds) =>
        /\ UnitAbove(HighestNamed(conv.kwargs)) # 0
        /\ ProjectedTime = NaiveProjection(conv.seconds, conv.kwargs)
                             + UnitAbove(HighestNamed(conv.kwargs))

(***************************************************************************)
(* C4 as amended.  For every current game time >= 0 and every partial      *)
(* naming a single unit with a value V inside the unit's range, whenever   *)
(* some game time later than the current one has the named unit equal to V *)
(* and every smaller unit equal to the current time's (always so for a     *)
(* unit other than the largest; for the largest unit only when V exceeds   *)
(* its current value), real_seconds_until returns a strictly positive      *)
(* delay, never 0, whose projected game time is the smallest such time.    *)
(* The times with the named unit equal to V and the smaller units as now   *)
(* lie exactly one next-larger unit apart, so the smallest one later than  *)
(* now is the one at most one next-larger unit ahead.                      *)
(***************************************************************************)
C4_NextOccurrence ==
    (/\ Resolved
     /\ SingleUnit(conv.kwargs)
     /\ InRange(conv.kwargs)
     /\ UnitAbove(TheUnit(conv.kwargs)) = 0 =>
           TheValue(conv.kwargs) > ValueOf(conv.seconds, TheUnit(conv.kwargs)))
    => LET size == TheUnit(conv.kwargs)
           above == UnitAbove(size)
       IN  /\ conv.num > 0
           /\ ValueOf(ProjectedTime, size) = TheValue(conv.kwargs)
           /\ ProjectedTime % size = conv.seconds % size
           /\ above # 0 => ProjectedTime - conv.seconds <= above

\* 00:10:17 with min=10: the next occurrence is 01:10:17
C4_Witness ==
    /\ Resolved
    /\ conv.kwargs = << <<n_min, 10>> >>
    /\ conv.seconds = 10 * MIN + 17
    /\ conv.num = HOUR

(***************************************************************************)
(* C4 as claimed.  For a partial naming a single unit with value V,        *)
(* real_seconds_until returns 0 only when the target already equals the    *)
(* current game time; otherwise it returns a strictly positive delay whose *)
(* projected game time is the smallest value >= the current game time      *)
(* whose breakdown has the named unit equal to V.                          *)
(***************************************************************************)
C4_Original ==
    (Resolved /\ SingleUnit(conv.kwargs) /\ InRange(conv.kwargs)) =>
        LET size == TheUnit(conv.kwargs)
            above == UnitAbove(size)
            V == TheValue(conv.kwargs)
        IN  /\ conv.num = 0 =>
                  NaiveProjection(conv.seconds, conv.kwargs) = conv.seconds
            /\ conv.num # 0 =>
                  /\ conv.num > 0
                  /\ IF ValueOf(conv.seconds, size) = V
                     THEN ProjectedTime = conv.seconds
                     ELSE /\ ValueOf(ProjectedTime, size) = V
                          /\ ProjectedTime % size = 0
                          /\ above # 0 => ProjectedTime - conv.seconds <= above

(***************************************************************************)
(* C10.  For every current game time >= 0 and every partial naming any     *)
(* subset of the configured units with values inside each unit's range,    *)
(* the projected game time after the single rollover step is strictly      *)
(* greater than the current game time: the returned delay is strictly      *)
(* positive.                                                               *)
(***************************************************************************)
C10_PositiveDelay ==
    (Resolved /\ InRange(conv.kwargs)) => conv.num > 0

(***************************************************************************)
(* Vocabulary of the properties of the scheduling protocol.                *)
(***************************************************************************)
\* the delay real_seconds_until gives for a clock read and a partial
DelayAt(now, kwargs) == seconds_of(real_seconds_until(now, kwargs))

\* a name without its plural "s"
Singular(name) ==
    IF Len(name) > 0 /\ name[Len(name)] = "s"
    THEN SubSeq(name, 1, Len(name) - 1) ELSE name

(***************************************************************************)
(* C1.  For every entry alive across a suspend (at_server_reload or        *)
(* at_server_shutdown) followed by a resume (at_start), under every        *)
(* interleaving of timer fires with these two events, the timer armed      *)
(* after the resume has a delay computed by real_seconds_until from a      *)
(* game-clock read made after the resume, never the delay computed before  *)
(* the suspend, and need_reset is false once that re-arm is done.          *)
(***************************************************************************)
C1_FreshDelayAfterResume ==
    last.op = "resume" =>
        \A id \in Ids :
            scripts[id].alive =>
                /\ scripts[id].armed
                /\ scripts[id].timer = DelayAt(last.now, scripts[id].gametime)
                /\ ~scripts[id].need_reset

\* The same, for the runs in which no timer fires between the suspend notice
\* and the stop of the process: this part holds.
FreshDelayWhenNoFireWhileSuspending ==
    (last.op = "resume" /\ \A i \in Ids : ~log[i].fired_suspending) =>
        \A id \in Ids :
            scripts[id].alive =>
                /\ scripts[id].armed
                /\ scripts[id].timer = DelayAt(last.now, scripts[id].gametime)
                /\ ~scripts[id].need_reset

(***************************************************************************)
(* C2.  An entry scheduled with repeat=False invokes its callback at most  *)
(* once: after its first timer fire the entry is released and is never     *)
(* re-armed, so no later timer fire can invoke the callback again.         *)
(***************************************************************************)
C2_OneShotAtMostOnce ==
    \A id \in Ids :
        (log[id].scheduled /\ ~log[id].repeat) =>
            /\ log[id].calls <= 1
            /\ log[id].fires <= 1
            /\ log[id].fires = 1 => (~scripts[id].alive /\ ~scripts[id].armed)

\* The callback part alone: at_repeat re-arms a one-shot entry as well, and
\* the fire of that timer calls the callback a second time.
OneShotCallbackAtMostOnce ==
    \A id \in Ids :
        (log[id].scheduled /\ ~log[id].repeat) => log[id].calls <= 1

\* What the code does pass on for a one-shot entry: repeats=1 to create_script.
OneShotCreatedWithOneRepeat ==
    \A id \in Ids :
        (log[id].scheduled /\ scripts[id].alive) =>
            scripts[id].repeats = IF log[id].repeat THEN -1 ELSE 1

(***************************************************************************)
(* C6.  For a repeating entry, when the callback invoked on a timer fire   *)
(* raises an error, the entry is still re-armed for its next occurrence:   *)
(* a failing callback never leaves a repeating entry without an armed      *)
(* timer.                                                                  *)
(***************************************************************************)
C6_RearmedAfterCallbackError ==
    (last.op = "fire" /\ log[last.id].repeat /\ last.error = "CallbackError") =>
        /\ scripts[last.id].alive
        /\ scripts[last.id].armed
        /\ scripts[last.id].timer = DelayAt(last.now, log[last.id].kwargs)

(***************************************************************************)
(* C9.  On every timer fire of a repeating entry, the callback is invoked  *)
(* first and the entry is then re-armed with the delay                     *)
(* real_seconds_until gives for the game time read from the clock during   *)
(* that fire handling and the entry's stored, unchanged partial spec.      *)
(***************************************************************************)
C9_FireRearmsFromLiveClock ==
    (last.op = "fire" /\ log[last.id].repeat) =>
        /\ scripts[last.id].alive
        /\ scripts[last.id].callback => last.called
        /\ scripts[last.id].gametime = log[last.id].kwargs
        /\ scripts[last.id].armed
        /\ scripts[last.id].timer = DelayAt(last.now, log[last.id].kwargs)

\* The same, for the fires whose callback returns: this part holds.
FireRearmsWhenCallbackReturns ==
    (last.op = "fire" /\ log[last.id].repeat /\ last.error = "none") =>
        /\ scripts[last.id].alive
        /\ scripts[last.id].callback => last.called
        /\ scripts[last.id].gametime = log[last.id].kwargs
        /\ scripts[last.id].armed
        /\ scripts[last.id].timer = DelayAt(last.now, log[last.id].kwargs)

(***************************************************************************)
(* C7.  schedule and gametime_to_realtime called with a unit name that is  *)
(* not in the unit table (for gametime_to_realtime: not even without its   *)
(* plural "s") fail with the unknown-unit error and mutate no state:       *)
(* schedule creates no script, stores nothing and arms no timer, and the   *)
(* existing scripts and their timers are unchanged.                        *)
(***************************************************************************)
C7_UnknownUnitMutatesNothing ==
    [][ ( \/ /\ last'.op = "schedule"
             /\ \E name \in kwargs_keys(last'.kwargs) : name \notin DOMAIN UNITS
          \/ /\ last'.op = "gametime_to_realtime"
             /\ \E name \in kwargs_keys(last'.kwargs) :
                   name \notin DOMAIN UNITS /\ Singular(name) \notin DOMAIN UNITS )
        => /\ last'.error = "ValueError"
           /\ UNCHANGED <<scripts, nextid, log, clock, phase, epoch, ticks>> ]_vars

\* a schedule call refused for its unit while a script exists with its timer armed
C7_Witness ==
    /\ last.op = "schedule"
    /\ last.error = "ValueError"
    /\ last.kwargs = << <<n_mins, 5>> >>
    /\ \E id \in Ids : scripts[id].alive /\ scripts[id].armed

====
